---- MODULE Spec2Model ----
(***************************************************************************)
(* A model of the session and schedule core of ip-camera-viewer:           *)
(*   CameraManager    (live view session, src/src/recorder.js 281-523)     *)
(*   RecorderManager  (recording session, src/src/recorder.js 1-279)       *)
(*   SchedulerManager (recurring schedules, src/src/scheduler.js)          *)
(* Transcoder processes are the environment: they deliver the events the   *)
(* managers register handlers for, in every order the libraries allow.     *)
(***************************************************************************)
EXTENDS Integers, Sequences, FiniteSets, TLC

(***************************************************************************)
(* Bounds of the model                                                     *)
(***************************************************************************)
\* a day of the model has HoursPerDay * MinsPerHour minutes
HoursPerDay == 2
MinsPerHour == 2
\* the query instants of the occurrence check span this many days
MaxFromDays == 7

\* transcoder processes a CameraManager spawns in one behaviour
MaxCamProcs == 2
\* health-check probes in flight at once
MaxProbes == 1

\* transcoder processes a RecorderManager spawns in one behaviour
MaxRecProcs == 2
\* the last instant of the recorder's wall clock
MaxRecTime == 1

\* schedule objects created in one behaviour
MaxSchedules == 1
\* random suffixes of a schedule id
MaxRnd == 1
\* recordings the user starts by hand beside the scheduled ones
MaxManualStarts == 1
\* schedules are added up to this instant
MaxAddTime == 0
\* the scheduler's wall clock runs up to this instant
MaxSchedTime == 3

\* components of a filename handed to deleteRecording
MaxPathLen == 3

\* steps of a behaviour in which both sessions run
MaxSessionSteps == 5

\* schedules added in the specification of two schedules
MaxTimerSchedules == 2

MinsPerDay == HoursPerDay * MinsPerHour

(***************************************************************************)
(* Program constants                                                       *)
(***************************************************************************)
\* scheduler.js:61  for (dayOffset = 0; dayOffset < 7; dayOffset++)
DaysChecked == 7
\* scheduler.js:75  return null
NoTime == -1
\* scheduler.js:70  the weekday names, indexed by Date.getDay()
DayNames == <<"sun", "mon", "tue", "wed", "thu", "fri", "sat">>
\* day 0 of the model is a Wednesday (getDay() = 3), as 2026-02-11 in the tests
EpochDow == 3
\* recorder.js:292  this.process = null
NoProc == 0

AllDays == {DayNames[i] : i \in 1..7}

VARIABLES
  cam,          \* CameraManager: status, currentUrl, audioUrl, process, health timer
  camProcs,     \* the transcoder processes it spawned, by process number
  camProbes,    \* health-check requests in flight
  camObs,       \* a status listener's place in idle -> [connecting] -> streaming -> idle|error
  camLast,      \* the last CameraManager step: operation, argument, outcome, events emitted
  rec,          \* RecorderManager: status, currentUrl, currentFile, startTime, process
  recProcs,     \* the transcoder processes it spawned, by process number
  recObs,       \* a status listener's place in idle -> recording -> idle|error
  recLast,      \* the last RecorderManager step
  schedHeap,    \* the schedule objects, by reference
  schedules,    \* SchedulerManager.schedules: references into schedHeap
  schedFile,    \* schedules.json
  activeTimers, \* SchedulerManager.activeTimers: id -> start timer
  completions,  \* the auto-stop timers of scheduled recordings
  execs,        \* scheduled starts whose startRecording promise is pending
  schedLast,    \* the last SchedulerManager step
  manualStarts, \* recordings started by hand so far
  sessionSteps, \* steps the two sessions have taken side by side
  fsFiles,      \* the files on disk, by absolute path
  delLast,      \* the last deleteRecording call: filename and outcome
  wallClock,    \* Date.now(), in minutes
  occSchedule,  \* the schedule handed to _getNextOccurrence
  occFrom,      \* the instant handed to _getNextOccurrence
  occResult,    \* what it returned
  occPc         \* "input" before the call, "done" after it

occVars == <<occSchedule, occFrom, occResult, occPc>>
camVars == <<cam, camProcs, camProbes, camObs, camLast>>
recVars == <<rec, recProcs, recObs, recLast>>
schedVars == <<schedHeap, schedules, schedFile, activeTimers, completions, execs, schedLast>>
fsVars == <<fsFiles, delLast>>

(***************************************************************************)
(* Dates.  An instant is a number of minutes since midnight of day 0.      *)
(***************************************************************************)
\* Date.getDate() arithmetic: the calendar day an instant lies in
DayOf(t) == t \div MinsPerDay

\* Date.getDay(): 0 = Sunday
GetDay(t) == (DayOf(t) + EpochDow) % 7

\* schedule.startTime.split(':').map(Number), a pair <<hour, minute>>, as the
\* minute of the day that setHours(hour, minute, 0, 0) selects
StartMinute(startTime) == startTime[1] * MinsPerHour + startTime[2]

\* candidate = new Date(now); setDate(getDate() + dayOffset); setHours(h, m, 0, 0)
Candidate(schedule, now, dayOffset) ==
  (DayOf(now) + dayOffset) * MinsPerDay + StartMinute(schedule.startTime)

MutDayExcludedByEmptyList(schedule, dayName) ==
  /\ Len(schedule.days) > 0
  /\ dayName \notin schedule.days[1]

\* schedule.days is <<>> when the field is absent and <<S>> when it holds the list S
DayExcluded(schedule, dayName) ==
  /\ Len(schedule.days) > 0
  /\ Cardinality(schedule.days[1]) > 0
  /\ dayName \notin schedule.days[1]

\* the loop body's two "continue" tests
MutSkipsInclusive(schedule, now, candidate) ==
  \/ candidate < now
  \/ DayExcluded(schedule, DayNames[GetDay(candidate) + 1])

Skips(schedule, now, candidate) ==
  \/ candidate <= now
  \/ DayExcluded(schedule, DayNames[GetDay(candidate) + 1])

RECURSIVE ScanDays(_, _, _)
ScanDays(schedule, now, dayOffset) ==
  IF dayOffset >= DaysChecked THEN NoTime
  ELSE IF Skips(schedule, now, Candidate(schedule, now, dayOffset))
       THEN ScanDays(schedule, now, dayOffset + 1)
       ELSE Candidate(schedule, now, dayOffset)

getNextOccurrence(schedule, fromDate) == ScanDays(schedule, fromDate, 0)

(***************************************************************************)
(* The occurrence check: _getNextOccurrence on every schedule and instant  *)
(* of the bounds.                                                          *)
(***************************************************************************)
StartTimes == (0..(HoursPerDay - 1)) \X (0..(MinsPerHour - 1))
DaysFields == {<<>>} \cup {<<S>> : S \in SUBSET AllDays}
OccSchedules == [startTime : StartTimes, days : DaysFields]

OccInit ==
  /\ occSchedule \in OccSchedules
  /\ occFrom \in 0..(MaxFromDays * MinsPerDay - 1)
  /\ occResult = NoTime
  /\ occPc = "input"

OccQuery ==
  /\ occPc = "input"
  /\ occResult' = getNextOccurrence(occSchedule, occFrom)
  /\ occPc' = "done"
  /\ UNCHANGED <<occSchedule, occFrom>>

(***************************************************************************)
(* URLs.  A URL string is the tuple of its parts: <<scheme, host, path>>,  *)
(* or <<text>> for a string with no scheme; <<>> is the empty or missing   *)
(* string, and also stands for null in a url field (the fields are only    *)
(* ever assigned a non-empty string or null).                              *)
(***************************************************************************)
NullUrl == <<>>
Schemes == {"http://", "https://", "rtsp://"}

\* new URL(s) succeeds
Parseable(url) == Len(url) = 3 /\ url[1] \in Schemes

\* String.prototype.toLowerCase on the parts the model uses
Lower(part) ==
  CASE part = "/MJPEG" -> "/mjpeg"
    [] OTHER -> part

\* /mjpg|mjpeg/ matches inside the part
HasMjpeg(part) == part \in {"/mjpg", "/mjpeg", "/mjpeg/video.mjpg"}

MutIsMjpegCaseSensitive(url) ==
  \/ \E i \in 1..Len(url) : HasMjpeg(url[i])
  \/ Len(url) > 0 /\ url[1] = "http://"

\* recorder.js:319  url.match(/mjpg|mjpeg/i) || url.startsWith('http://')
isMjpeg(url) ==
  \/ \E i \in 1..Len(url) : HasMjpeg(Lower(url[i]))
  \/ Len(url) > 0 /\ url[1] = "http://"

\* recorder.js:323  parsed.pathname = '/audio.cgi'; null when new URL throws
deriveAudioUrl(videoUrl) ==
  IF Parseable(videoUrl) THEN <<videoUrl[1], videoUrl[2], "/audio.cgi">> ELSE NullUrl

(***************************************************************************)
(* A status listener.  It follows the statuses emitted since the last      *)
(* accepted start call against                                             *)
(*    idle -> [connecting] -> streaming|recording -> idle|error            *)
(* where a start that fails before the ready signal may go to its terminal *)
(* status directly.  "bad" is any other sequence.                          *)
(***************************************************************************)
ObsStep(obs, status) ==
  CASE obs = "begin" /\ status = "connecting" -> "connecting"
    [] obs = "begin" /\ status \in {"streaming", "recording"} -> "active"
    [] obs = "begin" /\ status \in {"idle", "error"} -> "terminal"
    [] obs = "connecting" /\ status \in {"streaming", "recording"} -> "active"
    [] obs = "connecting" /\ status \in {"idle", "error"} -> "terminal"
    [] obs = "active" /\ status \in {"idle", "error"} -> "terminal"
    [] OTHER -> "bad"

RECURSIVE ObsRun(_, _)
ObsRun(obs, statuses) ==
  IF statuses = <<>> THEN obs
  ELSE ObsRun(ObsStep(obs, Head(statuses)), Tail(statuses))

(***************************************************************************)
(* CameraManager                                                           *)
(***************************************************************************)
CamPids == 1..MaxCamProcs

CamUrls ==
  { NullUrl,
    <<"http://", "cam", "/video">>,
    <<"rtsp://", "cam", "/stream">>,
    <<"rtsp://", "cam", "/MJPEG">>,
    <<"not-a-url">> }

NoCamProc == [state |-> "unused", killed |-> FALSE, promise |-> "none", terms |-> 0]

CamInit ==
  /\ cam = [status |-> "idle", currentUrl |-> NullUrl, audioUrl |-> NullUrl,
            process |-> NoProc, health |-> FALSE]
  /\ camProcs = [p \in CamPids |-> NoCamProc]
  /\ camProbes = [sent |-> 0, timedOut |-> 0]
  /\ camObs = "terminal"
  /\ camLast = [op |-> "new", url |-> NullUrl, result |-> "", emitted |-> <<>>]

CamStep(op, url, result, emitted) ==
  camLast' = [op |-> op, url |-> url, result |-> result, emitted |-> emitted]

\* a process number is free when no process bears it or the one that did is gone
CamFreePids == {p \in CamPids : camProcs[p].state \in {"unused", "dead"}}

\* process.kill('SIGTERM') on the current process, which then has had its terminal
\* side effect on the session
CamKilled(p) ==
  IF p = NoProc THEN camProcs
  ELSE [camProcs EXCEPT ![p].killed = TRUE, ![p].terms = @ + 1]

CamCleared(status) ==
  [status |-> status, currentUrl |-> NullUrl, audioUrl |-> NullUrl,
   process |-> NoProc, health |-> FALSE]

MutStartStreamWithoutUrlCheck(cameraUrl) ==
  \/ /\ cam.status = "streaming"
     /\ CamStep("startStream", cameraUrl, "AlreadyActive", <<>>)
     /\ UNCHANGED <<cam, camProcs, camProbes, camObs>>
  \/ /\ cam.status # "streaming"
     /\ CamFreePids # {}
     /\ LET p == CHOOSE q \in CamFreePids : \A r \in CamFreePids : q <= r IN
        /\ cam' = [cam EXCEPT !.status = "connecting", !.currentUrl = cameraUrl,
                              !.audioUrl = NullUrl, !.process = p]
        /\ camProcs' = [camProcs EXCEPT ![p] = [state |-> "spawned", killed |-> FALSE,
                                                promise |-> "pending", terms |-> 0]]
     /\ camObs' = ObsRun("begin", <<"connecting">>)
     /\ CamStep("startStream", cameraUrl, "pending", <<"connecting">>)
     /\ UNCHANGED camProbes

\* recorder.js:399-486
StartStream(cameraUrl) ==
  \/ /\ cam.status = "streaming"
     /\ CamStep("startStream", cameraUrl, "AlreadyActive", <<>>)
     /\ UNCHANGED <<cam, camProcs, camProbes, camObs>>
  \/ /\ cam.status # "streaming"
     /\ cameraUrl = NullUrl
     /\ CamStep("startStream", cameraUrl, "InvalidArgument", <<>>)
     /\ UNCHANGED <<cam, camProcs, camProbes, camObs>>
  \/ /\ cam.status # "streaming"
     /\ cameraUrl # NullUrl
     /\ isMjpeg(cameraUrl)
     /\ cam' = [status |-> "streaming", currentUrl |-> cameraUrl,
                audioUrl |-> deriveAudioUrl(cameraUrl), process |-> NoProc,
                health |-> TRUE]
     /\ camObs' = ObsRun("begin", <<"streaming">>)
     /\ CamStep("startStream", cameraUrl, "resolved", <<"streaming">>)
     /\ UNCHANGED <<camProcs, camProbes>>
  \/ /\ cam.status # "streaming"
     /\ cameraUrl # NullUrl
     /\ ~isMjpeg(cameraUrl)
     /\ CamFreePids # {}
     /\ LET p == CHOOSE q \in CamFreePids : \A r \in CamFreePids : q <= r IN
        /\ cam' = [cam EXCEPT !.status = "connecting", !.currentUrl = cameraUrl,
                              !.audioUrl = deriveAudioUrl(cameraUrl), !.process = p]
        /\ camProcs' = [camProcs EXCEPT ![p] = [state |-> "spawned", killed |-> FALSE,
                                                promise |-> "pending", terms |-> 0]]
     /\ camObs' = ObsRun("begin", <<"connecting">>)
     /\ CamStep("startStream", cameraUrl, "pending", <<"connecting">>)
     /\ UNCHANGED camProbes
  \/ \* the builder or run() throws: the catch block
     /\ cam.status # "streaming"
     /\ cameraUrl # NullUrl
     /\ ~isMjpeg(cameraUrl)
     /\ CamFreePids # {}
     /\ cam' = [cam EXCEPT !.status = "error", !.currentUrl = NullUrl,
                           !.audioUrl = NullUrl, !.process = NoProc]
     /\ camObs' = ObsRun("begin", <<"connecting", "error">>)
     /\ CamStep("startStream", cameraUrl, "rejected", <<"connecting", "error">>)
     /\ UNCHANGED <<camProcs, camProbes>>

MutStopStreamAlwaysResets ==
  /\ camProcs' = CamKilled(cam.process)
  /\ cam' = CamCleared("idle")
  /\ camObs' = ObsStep(camObs, "idle")
  /\ CamStep("stopStream", NullUrl, "stopped", <<"idle">>)
  /\ UNCHANGED camProbes

\* recorder.js:488-509
StopStream ==
  \/ /\ cam.status # "streaming"
     /\ cam.process = NoProc
     /\ CamStep("stopStream", NullUrl, "nothing", <<>>)
     /\ UNCHANGED <<cam, camProcs, camProbes, camObs>>
  \/ /\ ~(cam.status # "streaming" /\ cam.process = NoProc)
     /\ camProcs' = CamKilled(cam.process)
     /\ cam' = CamCleared("idle")
     /\ camObs' = ObsStep(camObs, "idle")
     /\ CamStep("stopStream", NullUrl, "stopped", <<"idle">>)
     /\ UNCHANGED camProbes

\* recorder.js:453-457  the builder's 'start' event
CamProcStart(p) ==
  /\ camProcs[p].state = "spawned"
  /\ camProcs' = [camProcs EXCEPT ![p].state = "started",
                    ![p].promise = IF @ = "pending" THEN "resolved" ELSE @]
  /\ cam' = [cam EXCEPT !.status = "streaming", !.health = TRUE]
  /\ camObs' = ObsStep(camObs, "streaming")
  /\ CamStep("procStart", NullUrl, "", <<"streaming">>)
  /\ UNCHANGED camProbes

MutCamProcErrorKeepsHealthCheck(p) ==
  /\ camProcs[p].state \in {"spawned", "started"}
  /\ LET wasConnecting == cam.status = "connecting" IN
     camProcs' = [camProcs EXCEPT ![p].state = "dead", ![p].terms = @ + 1,
                    ![p].promise = IF @ = "pending" /\ wasConnecting
                                   THEN "rejected" ELSE @]
  /\ cam' = [CamCleared("error") EXCEPT !.health = cam.health]
  /\ camObs' = ObsStep(camObs, "error")
  /\ CamStep("procError", NullUrl, "", <<"error">>)
  /\ UNCHANGED camProbes

\* recorder.js:458-468  the builder's 'error' event
CamProcError(p) ==
  /\ camProcs[p].state \in {"spawned", "started"}
  /\ LET wasConnecting == cam.status = "connecting" IN
     camProcs' = [camProcs EXCEPT ![p].state = "dead", ![p].terms = @ + 1,
                    ![p].promise = IF @ = "pending" /\ wasConnecting
                                   THEN "rejected" ELSE @]
  /\ cam' = CamCleared("error")
  /\ camObs' = ObsStep(camObs, "error")
  /\ CamStep("procError", NullUrl, "", <<"error">>)
  /\ UNCHANGED camProbes

MutCamProcEndKeepsProcess(p) ==
  /\ camProcs[p].state = "started"
  /\ camProcs' = [camProcs EXCEPT ![p].state = "dead", ![p].terms = @ + 1]
  /\ cam' = [CamCleared("idle") EXCEPT !.process = cam.process]
  /\ camObs' = ObsStep(camObs, "idle")
  /\ CamStep("procEnd", NullUrl, "", <<"idle">>)
  /\ UNCHANGED camProbes

\* recorder.js:469-475  the builder's 'end' event
CamProcEnd(p) ==
  /\ camProcs[p].state = "started"
  /\ camProcs' = [camProcs EXCEPT ![p].state = "dead", ![p].terms = @ + 1]
  /\ cam' = CamCleared("idle")
  /\ camObs' = ObsStep(camObs, "idle")
  /\ CamStep("procEnd", NullUrl, "", <<"idle">>)
  /\ UNCHANGED camProbes

\* recorder.js:335-337, 351-383  the interval fires _checkCameraReachable
HealthTick ==
  /\ cam.health
  /\ LET probing == /\ cam.status = "streaming"
                    /\ cam.currentUrl # NullUrl
                    /\ Parseable(cam.currentUrl)
     IN /\ probing => camProbes.sent + camProbes.timedOut < MaxProbes
        /\ camProbes' = IF probing THEN [camProbes EXCEPT !.sent = @ + 1]
                        ELSE camProbes
  /\ CamStep("healthTick", NullUrl, "", <<>>)
  /\ UNCHANGED <<cam, camProcs, camObs>>

MutHandleUnreachableNoGuard(op) ==
  /\ camProcs' = CamKilled(cam.process)
  /\ cam' = CamCleared("idle")
  /\ camObs' = ObsStep(camObs, "idle")
  /\ CamStep(op, NullUrl, "reset", <<"idle", "healthcheck">>)

\* recorder.js:385-397
handleUnreachable(op) ==
  IF cam.status # "streaming"
  THEN /\ CamStep(op, NullUrl, "ignored", <<>>)
       /\ UNCHANGED <<cam, camProcs, camObs>>
  ELSE /\ camProcs' = CamKilled(cam.process)
       /\ cam' = CamCleared("idle")
       /\ camObs' = ObsStep(camObs, "idle")
       /\ CamStep(op, NullUrl, "reset", <<"idle", "healthcheck">>)

\* recorder.js:366-370  a response: the probe is dropped
ProbeResponse ==
  /\ camProbes.sent > 0
  /\ camProbes' = [camProbes EXCEPT !.sent = @ - 1]
  /\ CamStep("probeResponse", NullUrl, "", <<>>)
  /\ UNCHANGED <<cam, camProcs, camObs>>

\* recorder.js:372-375  'timeout': req.destroy(), after which 'error' may follow
ProbeTimeout ==
  /\ camProbes.sent > 0
  /\ camProbes' = [sent |-> camProbes.sent - 1, timedOut |-> camProbes.timedOut + 1]
  /\ handleUnreachable("probeTimeout")

\* recorder.js:377-379  'error', of a request in flight or of one destroyed on timeout
ProbeError(from) ==
  /\ camProbes[from] > 0
  /\ camProbes' = [camProbes EXCEPT ![from] = @ - 1]
  /\ handleUnreachable("probeError")

(***************************************************************************)
(* RecorderManager                                                         *)
(***************************************************************************)
RecPids == 1..MaxRecProcs

NullFile == <<>>

\* recorder.js:29-35  recording_<date>_<time>.mp4 of the wall clock
generateFilename(t) == <<"recording", t>>

\* the options argument: absent, or an object whose includeAudio is unset, true or
\* false and whose audioUrl is unset (NullUrl) or a string
NoOptions == [given |-> FALSE, includeAudio |-> "unset", audioUrl |-> NullUrl]
EmptyOptions == [given |-> TRUE, includeAudio |-> "unset", audioUrl |-> NullUrl]
NoAudioOptions == [given |-> TRUE, includeAudio |-> "false", audioUrl |-> NullUrl]
AudioUrlOptions ==
  [given |-> TRUE, includeAudio |-> "unset", audioUrl |-> <<"http://", "mic", "/audio">>]

\* the startRecording calls of the model: <<cameraUrl, options>>
RecCalls ==
  { <<NullUrl, NoOptions>>,
    <<<<"rtsp://", "cam", "/stream">>, NoOptions>>,
    <<<<"rtsp://", "cam", "/stream">>, EmptyOptions>>,
    <<<<"rtsp://", "cam", "/stream">>, NoAudioOptions>>,
    <<<<"not-a-url">>, EmptyOptions>>,
    <<<<"not-a-url">>, AudioUrlOptions>> }

\* recorder.js:63  (options && options.audioUrl) || this._deriveAudioUrl(cameraUrl)
AudioUrlFor(cameraUrl, options) ==
  IF options.given /\ options.audioUrl # NullUrl THEN options.audioUrl
  ELSE deriveAudioUrl(cameraUrl)

\* recorder.js:64  !!(options && options.includeAudio !== false && audioUrl)
IncludeAudio(cameraUrl, options) ==
  /\ options.given
  /\ options.includeAudio # "false"
  /\ AudioUrlFor(cameraUrl, options) # NullUrl

NoRecProc == [kind |-> "none", state |-> "unused", killed |-> FALSE,
              promise |-> "none", terms |-> 0]

RecInit ==
  /\ rec = [status |-> "idle", currentUrl |-> NullUrl, currentFile |-> NullFile,
            startTime |-> NoTime, process |-> NoProc]
  /\ recProcs = [p \in RecPids |-> NoRecProc]
  /\ recObs = "terminal"
  /\ recLast = [op |-> "new", url |-> NullUrl, result |-> "", emitted |-> <<>>,
                file |-> NullFile]

RecStep(op, url, result, emitted, file) ==
  recLast' = [op |-> op, url |-> url, result |-> result, emitted |-> emitted,
              file |-> file]

RecFreePids == {p \in RecPids : recProcs[p].state \in {"unused", "dead"}}

RecCleared(status) ==
  [status |-> status, currentUrl |-> NullUrl, currentFile |-> NullFile,
   startTime |-> NoTime, process |-> NoProc]

\* recorder.js:47-74, with the spawn of 76-96 and 148-163, 193
startRecording(cameraUrl, options) ==
  \/ /\ rec.process # NoProc
     /\ RecStep("startRecording", cameraUrl, "AlreadyActive", <<>>, NullFile)
     /\ UNCHANGED <<rec, recProcs, recObs>>
  \/ /\ rec.process = NoProc
     /\ cameraUrl = NullUrl
     /\ RecStep("startRecording", cameraUrl, "InvalidArgument", <<>>, NullFile)
     /\ UNCHANGED <<rec, recProcs, recObs>>
  \/ /\ rec.process = NoProc
     /\ cameraUrl # NullUrl
     /\ RecFreePids # {}
     /\ LET p == CHOOSE q \in RecFreePids : \A r \in RecFreePids : q <= r
            kind == IF IncludeAudio(cameraUrl, options) THEN "dual" ELSE "video"
        IN /\ rec' = [rec EXCEPT !.currentUrl = cameraUrl,
                                 !.currentFile = generateFilename(wallClock),
                                 !.process = p]
           /\ recProcs' = [recProcs EXCEPT ![p] =
                             [kind |-> kind, state |-> "spawned", killed |-> FALSE,
                              promise |-> "pending", terms |-> 0]]
     /\ recObs' = "begin"
     /\ RecStep("startRecording", cameraUrl, "pending", <<>>, generateFilename(wallClock))
  \/ \* spawn, the builder or run() throws: the catch blocks (138-145, 194-201)
     /\ rec.process = NoProc
     /\ cameraUrl # NullUrl
     /\ RecFreePids # {}
     /\ rec' = RecCleared("error")
     /\ recObs' = ObsRun("begin", <<"error">>)
     /\ RecStep("startRecording", cameraUrl, "rejected", <<"error">>, NullFile)
     /\ UNCHANGED recProcs

\* recorder.js:204-228
stopRecording ==
  \/ /\ rec.process = NoProc
     /\ RecStep("stopRecording", NullUrl, "nothing", <<>>, NullFile)
     /\ UNCHANGED <<rec, recProcs, recObs>>
  \/ /\ rec.process # NoProc
     /\ recProcs' = [recProcs EXCEPT ![rec.process].killed = TRUE,
                                     ![rec.process].terms = @ + 1]
     /\ rec' = RecCleared("idle")
     /\ recObs' = ObsStep(recObs, "idle")
     /\ RecStep("stopRecording", NullUrl, "stopped", <<"idle">>, rec.currentFile)

\* the ready signal: the builder's 'start' event (164-173), or stderr output holding
\* 'Output #0' or 'Press [q]' while the handler's started flag is unset (101-115)
RecProcReady(p) ==
  /\ recProcs[p].state = "spawned"
  /\ recProcs' = [recProcs EXCEPT ![p].state = "started",
                    ![p].promise = IF @ = "pending" THEN "resolved" ELSE @]
  /\ rec' = [rec EXCEPT !.status = "recording", !.startTime = wallClock]
  /\ recObs' = ObsStep(recObs, "recording")
  /\ RecStep("procReady", NullUrl, "", <<"recording">>, NullFile)

\* the 'error' event.  The builder (174-184) emits it instead of 'end', before or
\* after 'start'; a spawned child (117-126) emits it when the spawn failed, and its
\* 'close' follows.
RecProcError(p) ==
  /\ \/ recProcs[p].kind = "video" /\ recProcs[p].state \in {"spawned", "started"}
     \/ recProcs[p].kind = "dual" /\ recProcs[p].state = "spawned"
  /\ LET notStarted == IF recProcs[p].kind = "video"
                       THEN rec.status # "recording"
                       ELSE recProcs[p].state # "started"
     IN recProcs' = [recProcs EXCEPT
                       ![p].state = IF recProcs[p].kind = "video" THEN "dead" ELSE "errored",
                       ![p].terms = @ + 1,
                       ![p].promise = IF @ = "pending" /\ notStarted
                                      THEN "rejected" ELSE @]
  /\ rec' = RecCleared("error")
  /\ recObs' = ObsStep(recObs, "error")
  /\ RecStep("procError", NullUrl, "", <<"error">>, NullFile)

\* how a process ends: with exit code 0, or with another code or a signal
Exits == {"clean", "crashed"}

\* the end of the process: the builder's 'end' (185-191), which it emits for a clean
\* exit only, and the child's 'close' (128-137), emitted for every exit code, which
\* rejects when the started flag is unset
RecProcEnd(p, exit) ==
  /\ \/ recProcs[p].kind = "video" /\ recProcs[p].state = "started" /\ exit = "clean"
     \/ recProcs[p].kind = "dual" /\ recProcs[p].state \in {"spawned", "errored", "started"}
  /\ recProcs' = [recProcs EXCEPT
                    ![p].state = "dead",
                    ![p].terms = @ + 1,
                    ![p].promise = IF /\ @ = "pending"
                                      /\ recProcs[p].kind = "dual"
                                      /\ recProcs[p].state # "started"
                                   THEN "rejected" ELSE @]
  /\ rec' = RecCleared("idle")
  /\ recObs' = ObsStep(recObs, "idle")
  /\ RecStep("procEnd", NullUrl, exit, <<"idle">>, NullFile)

\* the wall clock moves on
RecTick ==
  /\ wallClock < MaxRecTime
  /\ wallClock' = wallClock + 1

(***************************************************************************)
(* SchedulerManager.  Schedule objects live in schedHeap and are referred  *)
(* to by their index: this.schedules holds references, and so does the     *)
(* closure of every timer, also after the schedule has left the list.      *)
(***************************************************************************)
\* scheduler.js:80, 115  durationMinutes || 60: an hour
DefaultDurationMinutes == MinsPerHour

\* scheduler.js:116  days || [all seven]
DefaultDays == <<AllDays>>

\* scheduler.js:111  Date.now().toString(36) + four random characters
NewId(t, rnd) == <<t, rnd>>

MissingId == <<-1, 0>>

SchedUrl == <<"rtsp://", "cam", "/stream">>

\* what addSchedule is called with; durationMinutes 0 stands for an omitted one,
\* days <<>> for omitted days, enabled TRUE also for an omitted flag
AddSpecs ==
  [cameraUrl : {SchedUrl, NullUrl},
   startTime : {<<0, 1>>},
   durationMinutes : {0, 1},
   days : {<<>>, <<{"wed"}>>},
   enabled : BOOLEAN]

\* the calls of the specification of two schedules
TimerSpecs ==
  [cameraUrl : {NullUrl},
   startTime : {<<0, 1>>},
   durationMinutes : {1},
   days : {<<>>, <<{"wed"}>>},
   enabled : BOOLEAN]

\* the partial records updateSchedule is called with
SchedUpdates ==
  { [enabled |-> FALSE],
    [enabled |-> TRUE],
    [days |-> <<{}>>],
    [startTime |-> <<1, 1>>, days |-> <<{"thu"}>>] }

\* the request body of PUT /api/schedules/:id is passed on as it is
TimerUpdates ==
  { [enabled |-> FALSE],
    [enabled |-> TRUE],
    [days |-> <<{"thu"}>>],
    [id |-> NewId(0, 0)] }

\* Object.assign(target, updates)
Assign(target, updates) ==
  [f \in DOMAIN target \cup DOMAIN updates |->
     IF f \in DOMAIN updates THEN updates[f] ELSE target[f]]

SchedInit ==
  /\ schedHeap = <<>>
  /\ schedules = <<>>
  /\ schedFile = <<>>
  /\ activeTimers = {}
  /\ completions = {}
  /\ execs = {}
  /\ schedLast = [op |-> "new", id |-> MissingId, result |-> "", emitted |-> <<>>]

SchedStep(op, id, result, emitted) ==
  schedLast' = [op |-> op, id |-> id, result |-> result, emitted |-> emitted]

\* scheduler.js:26-28  JSON.stringify(this.schedules)
Saved(heap, list) == [i \in 1..Len(list) |-> heap[list[i]]]

MutClearTimerKeeps(timers, id) == timers

\* scheduler.js:102-107
clearTimer(timers, id) == {t \in timers : t.id # id}

MutScheduleNextKeepsTimer(timers, heap, obj, t) ==
  LET nextStart == getNextOccurrence(heap[obj], t)
  IN IF nextStart = NoTime THEN timers
     ELSE IF nextStart - t < 0 THEN timers
     ELSE timers \cup {[id |-> heap[obj].id, obj |-> obj, at |-> nextStart,
                        fired |-> FALSE]}

\* scheduler.js:38-54  with the schedule object read from heap
scheduleNext(timers, heap, obj, t) ==
  LET cleared == clearTimer(timers, heap[obj].id)
      nextStart == getNextOccurrence(heap[obj], t)
  IN IF nextStart = NoTime THEN cleared
     ELSE IF nextStart - t < 0 THEN cleared
     ELSE cleared \cup {[id |-> heap[obj].id, obj |-> obj, at |-> nextStart,
                         fired |-> FALSE]}

\* this.schedules.findIndex((s) => s.id === id), 0 for -1
FindIndex(id) ==
  IF \E i \in 1..Len(schedules) : schedHeap[schedules[i]].id = id
  THEN CHOOSE i \in 1..Len(schedules) :
         /\ schedHeap[schedules[i]].id = id
         /\ \A j \in 1..(i - 1) : schedHeap[schedules[j]].id # id
  ELSE 0

\* scheduler.js:109-129
addSchedule(spec, rnd) ==
  /\ LET schedule == [id |-> NewId(wallClock, rnd),
                      cameraUrl |-> spec.cameraUrl,
                      startTime |-> spec.startTime,
                      durationMinutes |-> IF spec.durationMinutes = 0
                                          THEN DefaultDurationMinutes
                                          ELSE spec.durationMinutes,
                      days |-> IF spec.days = <<>> THEN DefaultDays ELSE spec.days,
                      enabled |-> spec.enabled]
         heap == Append(schedHeap, schedule)
         obj == Len(heap)
     IN /\ schedHeap' = heap
        /\ schedules' = Append(schedules, obj)
        /\ schedFile' = Saved(heap, Append(schedules, obj))
        /\ activeTimers' = IF schedule.enabled
                           THEN scheduleNext(activeTimers, heap, obj, wallClock)
                           ELSE activeTimers
        /\ SchedStep("addSchedule", schedule.id, "added", <<>>)
  /\ UNCHANGED <<completions, execs>>

\* scheduler.js:131-144
updateSchedule(id, updates) ==
  LET idx == FindIndex(id) IN
  \/ /\ idx = 0
     /\ SchedStep("updateSchedule", id, "NotFound", <<>>)
     /\ UNCHANGED <<schedHeap, schedules, schedFile, activeTimers, completions, execs>>
  \/ /\ idx # 0
     /\ LET obj == schedules[idx]
            heap == [schedHeap EXCEPT ![obj] = Assign(@, updates)]
        IN /\ schedHeap' = heap
           /\ schedFile' = Saved(heap, schedules)
           /\ activeTimers' = IF heap[obj].enabled
                              THEN scheduleNext(clearTimer(activeTimers, id), heap,
                                                obj, wallClock)
                              ELSE clearTimer(activeTimers, id)
     /\ SchedStep("updateSchedule", id, "updated", <<>>)
     /\ UNCHANGED <<schedules, completions, execs>>

MutDeleteScheduleWithoutThrow(id) ==
  LET found == FindIndex(id)
      idx == IF found = 0 THEN Len(schedules) ELSE found
  IN
  \/ /\ idx = 0
     /\ SchedStep("deleteSchedule", id, "deleted", <<>>)
     /\ UNCHANGED <<schedHeap, schedules, schedFile, activeTimers, completions, execs>>
  \/ /\ idx # 0
     /\ LET list == [i \in 1..(Len(schedules) - 1) |->
                       IF i < idx THEN schedules[i] ELSE schedules[i + 1]]
        IN /\ schedules' = list
           /\ schedFile' = Saved(schedHeap, list)
     /\ activeTimers' = clearTimer(activeTimers, id)
     /\ SchedStep("deleteSchedule", id, "deleted", <<>>)
     /\ UNCHANGED <<schedHeap, completions, execs>>

\* scheduler.js:146-155
deleteSchedule(id) ==
  LET idx == FindIndex(id) IN
  \/ /\ idx = 0
     /\ SchedStep("deleteSchedule", id, "NotFound", <<>>)
     /\ UNCHANGED <<schedHeap, schedules, schedFile, activeTimers, completions, execs>>
  \/ /\ idx # 0
     /\ LET list == [i \in 1..(Len(schedules) - 1) |->
                       IF i < idx THEN schedules[i] ELSE schedules[i + 1]]
        IN /\ schedules' = list
           /\ schedFile' = Saved(schedHeap, list)
     /\ activeTimers' = clearTimer(activeTimers, id)
     /\ SchedStep("deleteSchedule", id, "deleted", <<>>)
     /\ UNCHANGED <<schedHeap, completions, execs>>

\* scheduler.js:16-24  JSON.parse of the file: a fresh object for every entry, in the
\* order of the file
loadSchedules(file) ==
  [heap |-> file, list |-> [i \in 1..Len(file) |-> i]]

\* scheduler.js:30-36  the loop from the i-th schedule of the list on
RECURSIVE initTimersFrom(_, _, _, _, _)
initTimersFrom(timers, heap, list, i, t) ==
  IF i > Len(list) THEN timers
  ELSE initTimersFrom(IF heap[list[i]].enabled
                      THEN scheduleNext(timers, heap, list[i], t)
                      ELSE timers,
                      heap, list, i + 1, t)

\* scheduler.js:6-14  the engine that the constructor builds from the file at time t
Constructed(file, t) ==
  LET loaded == loadSchedules(file)
  IN [schedHeap |-> loaded.heap,
      schedules |-> loaded.list,
      activeTimers |-> initTimersFrom({}, loaded.heap, loaded.list, 1, t)]

\* scheduler.js:165-169
destroy ==
  /\ activeTimers' = {}
  /\ SchedStep("destroy", MissingId, "", <<>>)
  /\ UNCHANGED <<schedHeap, schedules, schedFile, completions, execs>>

\* the promise of process p belongs to a scheduled start no longer once the process
\* number is given to a new process
ExecsWithout(p) == {e \in execs : e.pid # p}

\* scheduler.js:49-51, 78-100  a start timer fires: _executeSchedule up to the point
\* where startRecording has returned its promise; a promise rejected at once runs
\* the catch handler before anything else happens
TimerFire(timer) ==
  /\ timer \in activeTimers
  /\ ~timer.fired
  /\ wallClock >= timer.at
  /\ startRecording(schedHeap[timer.obj].cameraUrl, NoOptions)
  /\ LET fired == (activeTimers \ {timer}) \cup {[timer EXCEPT !.fired = TRUE]}
         id == schedHeap[timer.obj].id
     IN IF recLast'.result = "pending"
        THEN /\ activeTimers' = fired
             /\ execs' = ExecsWithout(rec'.process) \cup
                           {[pid |-> rec'.process, obj |-> timer.obj,
                             durationMinutes |-> schedHeap[timer.obj].durationMinutes]}
             /\ SchedStep("timerFire", id, "started", <<"schedule_start">>)
        ELSE /\ activeTimers' = scheduleNext(fired, schedHeap, timer.obj, wallClock)
             /\ execs' = execs
             /\ SchedStep("timerFire", id, recLast'.result,
                          <<"schedule_start", "schedule_error">>)
  /\ UNCHANGED <<schedHeap, schedules, schedFile, completions>>

\* scheduler.js:85-99  the then and catch handlers of a scheduled start, run when a
\* step settles the promise of process p
Settled(p) ==
  IF \E e \in execs : e.pid = p /\ recProcs[p].promise = "pending"
                                /\ recProcs'[p].promise # "pending"
  THEN LET e == CHOOSE x \in execs : x.pid = p IN
       /\ execs' = ExecsWithout(p)
       /\ IF recProcs'[p].promise = "resolved"
          THEN /\ completions' = completions \cup
                    {[obj |-> e.obj, pid |-> p, at |-> wallClock + e.durationMinutes]}
               /\ SchedStep("startSucceeded", schedHeap[e.obj].id, "resolved", <<>>)
               /\ UNCHANGED activeTimers
          ELSE /\ activeTimers' = scheduleNext(activeTimers, schedHeap, e.obj, wallClock)
               /\ SchedStep("startFailed", schedHeap[e.obj].id, "rejected",
                            <<"schedule_error">>)
               /\ UNCHANGED completions
  ELSE UNCHANGED <<activeTimers, completions, execs, schedLast>>

\* scheduler.js:87-93  the completion timer fires
CompletionFire(c) ==
  /\ c \in completions
  /\ wallClock >= c.at
  /\ stopRecording
  /\ completions' = completions \ {c}
  /\ activeTimers' = scheduleNext(activeTimers, schedHeap, c.obj, wallClock)
  /\ SchedStep("completionFire", schedHeap[c.obj].id, recLast'.result,
               <<"schedule_complete">>)
  /\ UNCHANGED <<schedHeap, schedules, schedFile, execs>>

\* time passes, once every timer that is due has fired
SchedTick ==
  /\ wallClock < MaxSchedTime
  /\ \A t \in activeTimers : t.fired \/ t.at > wallClock
  /\ \A c \in completions : c.at > wallClock
  /\ wallClock' = wallClock + 1

\* the users of the recorder beside the scheduler
ManualStart ==
  /\ manualStarts < MaxManualStarts
  /\ manualStarts' = manualStarts + 1
  /\ startRecording(SchedUrl, NoOptions)
  /\ execs' = IF recLast'.result = "pending" THEN ExecsWithout(rec'.process) ELSE execs
  /\ UNCHANGED <<schedHeap, schedules, schedFile, activeTimers, completions, schedLast>>

ManualStop ==
  /\ stopRecording
  /\ UNCHANGED schedVars

RecEvent(p) ==
  /\ RecProcReady(p) \/ RecProcError(p) \/ \E exit \in Exits : RecProcEnd(p, exit)
  /\ Settled(p)
  /\ UNCHANGED <<schedHeap, schedules, schedFile>>

(***************************************************************************)
(* Recording files.  A string is the sequence of its pieces, "/" being a   *)
(* piece of its own, so that startsWith is the prefix test on sequences:   *)
(* "recordings-old" is <<"recordings", "-old">> and begins with            *)
(* "recordings".  A path is handled as the list of its components.         *)
(***************************************************************************)
\* recorder.js:16  path.resolve(__dirname, '..', config.recordingsDir)
RecordingsDir == << <<"app">>, <<"recordings">> >>

\* the components a filename of the model is built of: '..', the empty component a
\* leading '/' makes, a file name, and directory names
PathComponents ==
  { <<"..">>, <<>>, <<"a.mp4">>, <<"recordings">>, <<"recordings", "-old">> }

\* the filenames deleteRecording is called with
Filenames ==
  UNION {[1..n -> PathComponents] : n \in 1..MaxPathLen}

\* path normalisation: empty components vanish, '..' drops the component before it
RECURSIVE Normalize(_, _)
Normalize(done, rest) ==
  IF rest = <<>> THEN done
  ELSE IF Head(rest) = <<>> THEN Normalize(done, Tail(rest))
  ELSE IF Head(rest) = <<"..">>
       THEN Normalize(IF done = <<>> THEN done ELSE SubSeq(done, 1, Len(done) - 1),
                      Tail(rest))
       ELSE Normalize(Append(done, Head(rest)), Tail(rest))

\* recorder.js:253, 256  path.resolve(path.join(this.recordingsDir, filename))
ResolvePath(filename) == Normalize(<<>>, RecordingsDir \o filename)

\* the string of an absolute path
RECURSIVE PathString(_)
PathString(components) ==
  IF components = <<>> THEN <<>>
  ELSE <<"/">> \o Head(components) \o PathString(Tail(components))

\* String.prototype.startsWith
StartsWith(str, prefix) ==
  /\ Len(str) >= Len(prefix)
  /\ SubSeq(str, 1, Len(prefix)) = prefix

\* the directories that exist
FsDirs ==
  { <<>>, << <<"app">> >>, RecordingsDir, << <<"app">>, <<"recordings", "-old">> >> }

FsInit ==
  /\ fsFiles = { RecordingsDir \o << <<"a.mp4">> >>,
                 << <<"app">>, <<"recordings", "-old">>, <<"a.mp4">> >>,
                 << <<"app">>, <<"a.mp4">> >> }
  /\ delLast = [filename |-> <<>>, result |-> "new"]

\* recorder.js:252-267; unlinkSync of a directory throws
deleteRecording(filename) ==
  LET resolved == ResolvePath(filename) IN
  \/ /\ ~StartsWith(PathString(resolved), PathString(RecordingsDir))
     /\ delLast' = [filename |-> filename, result |-> "InvalidFilename"]
     /\ UNCHANGED fsFiles
  \/ /\ StartsWith(PathString(resolved), PathString(RecordingsDir))
     /\ resolved \notin fsFiles \cup FsDirs
     /\ delLast' = [filename |-> filename, result |-> "NotFound"]
     /\ UNCHANGED fsFiles
  \/ /\ StartsWith(PathString(resolved), PathString(RecordingsDir))
     /\ resolved \in FsDirs
     /\ delLast' = [filename |-> filename, result |-> "UnlinkError"]
     /\ UNCHANGED fsFiles
  \/ /\ StartsWith(PathString(resolved), PathString(RecordingsDir))
     /\ resolved \in fsFiles
     /\ delLast' = [filename |-> filename, result |-> "Deleted"]
     /\ fsFiles' = fsFiles \ {resolved}

vars ==
  <<occVars, camVars, recVars, schedVars, fsVars, manualStarts, sessionSteps, wallClock>>

(***************************************************************************)
(* Specifications.  Each runs one component; the others stay as built.     *)
(***************************************************************************)
OccIdle ==
  /\ occSchedule = [startTime |-> <<0, 0>>, days |-> <<>>]
  /\ occFrom = 0
  /\ occResult = NoTime
  /\ occPc = "done"

InitOccurrence ==
  OccInit /\ CamInit /\ RecInit /\ SchedInit /\ FsInit
  /\ manualStarts = 0 /\ sessionSteps = 0 /\ wallClock = 0

OccNext ==
  OccQuery
    /\ UNCHANGED <<camVars, recVars, schedVars, fsVars, manualStarts, sessionSteps, wallClock>>

SpecOccurrence == InitOccurrence /\ [][OccNext]_vars

InitCamera ==
  OccIdle /\ CamInit /\ RecInit /\ SchedInit /\ FsInit
  /\ manualStarts = 0 /\ sessionSteps = 0 /\ wallClock = 0

notCam == <<occVars, recVars, schedVars, fsVars, manualStarts, sessionSteps, wallClock>>

CamNext ==
  \/ (\E url \in CamUrls : StartStream(url)) /\ UNCHANGED notCam
  \/ StopStream /\ UNCHANGED notCam
  \/ (\E p \in CamPids : CamProcStart(p)) /\ UNCHANGED notCam
  \/ (\E p \in CamPids : CamProcError(p)) /\ UNCHANGED notCam
  \/ (\E p \in CamPids : CamProcEnd(p)) /\ UNCHANGED notCam
  \/ HealthTick /\ UNCHANGED notCam
  \/ ProbeResponse /\ UNCHANGED notCam
  \/ ProbeTimeout /\ UNCHANGED notCam
  \/ (\E from \in {"sent", "timedOut"} : ProbeError(from)) /\ UNCHANGED notCam

SpecCamera == InitCamera /\ [][CamNext]_vars

\* what a transcoder does by itself: it signals ready, fails or ends
CamProcEvent(p) ==
  (CamProcStart(p) \/ CamProcError(p) \/ CamProcEnd(p)) /\ UNCHANGED notCam

\* the health-check timer and the probe it sent
CamProbeEvent ==
  (\/ HealthTick
   \/ ProbeResponse
   \/ ProbeTimeout
   \/ \E from \in {"sent", "timedOut"} : ProbeError(from)) /\ UNCHANGED notCam

\* nobody has to call startStream or stopStream, but a process that runs and a
\* timer that is armed do not hold still for ever
SpecCameraLive ==
  /\ SpecCamera
  /\ \A p \in CamPids : WF_vars(CamProcEvent(p))
  /\ WF_vars(CamProbeEvent)

InitRecorder ==
  OccIdle /\ CamInit /\ RecInit /\ SchedInit /\ FsInit
  /\ manualStarts = 0 /\ sessionSteps = 0 /\ wallClock = 0

notRec == <<occVars, camVars, schedVars, fsVars, manualStarts, sessionSteps>>

RecNext ==
  \/ (\E call \in RecCalls : startRecording(call[1], call[2]))
       /\ UNCHANGED <<notRec, wallClock>>
  \/ stopRecording /\ UNCHANGED <<notRec, wallClock>>
  \/ (\E p \in RecPids : RecProcReady(p)) /\ UNCHANGED <<notRec, wallClock>>
  \/ (\E p \in RecPids : RecProcError(p)) /\ UNCHANGED <<notRec, wallClock>>
  \/ (\E p \in RecPids, exit \in Exits : RecProcEnd(p, exit)) /\ UNCHANGED <<notRec, wallClock>>
  \/ RecTick /\ UNCHANGED <<notRec, recVars>>

SpecRecorder == InitRecorder /\ [][RecNext]_vars

InitScheduler ==
  OccIdle /\ CamInit /\ RecInit /\ SchedInit /\ FsInit
  /\ manualStarts = 0 /\ sessionSteps = 0 /\ wallClock = 0

notSched == <<occVars, camVars, fsVars, sessionSteps>>

SchedNext ==
  \/ (\E spec \in AddSpecs, rnd \in 0..(MaxRnd - 1) :
        /\ Len(schedHeap) < MaxSchedules
        /\ wallClock <= MaxAddTime
        /\ addSchedule(spec, rnd))
       /\ UNCHANGED <<notSched, recVars, manualStarts, wallClock>>
  \/ (\E i \in 1..Len(schedHeap), updates \in SchedUpdates :
        updateSchedule(schedHeap[i].id, updates))
       /\ UNCHANGED <<notSched, recVars, manualStarts, wallClock>>
  \/ (\E i \in 1..Len(schedHeap) : deleteSchedule(schedHeap[i].id))
       /\ UNCHANGED <<notSched, recVars, manualStarts, wallClock>>
  \/ destroy /\ UNCHANGED <<notSched, recVars, manualStarts, wallClock>>
  \/ (\E timer \in activeTimers : TimerFire(timer))
       /\ UNCHANGED <<notSched, manualStarts, wallClock>>
  \/ (\E c \in completions : CompletionFire(c))
       /\ UNCHANGED <<notSched, manualStarts, wallClock>>
  \/ (\E p \in RecPids : RecEvent(p)) /\ UNCHANGED <<notSched, manualStarts, wallClock>>
  \/ ManualStart /\ UNCHANGED <<notSched, wallClock>>
  \/ ManualStop /\ UNCHANGED <<notSched, manualStarts, wallClock>>
  \/ SchedTick /\ UNCHANGED <<notSched, recVars, schedVars, manualStarts>>

SpecScheduler == InitScheduler /\ [][SchedNext]_vars

\* the scheduler with two schedules whose camera URL is missing, so that every
\* firing fails at once and re-arms
InitTimers ==
  OccIdle /\ CamInit /\ RecInit /\ SchedInit /\ FsInit
  /\ manualStarts = 0 /\ sessionSteps = 0 /\ wallClock = 0

HeapIds == {schedHeap[i].id : i \in 1..Len(schedHeap)}

TimersNext ==
  \/ (\E spec \in TimerSpecs, rnd \in 0..MaxRnd :
        /\ Len(schedHeap) < MaxTimerSchedules
        /\ addSchedule(spec, rnd))
       /\ UNCHANGED <<notSched, recVars, manualStarts, wallClock>>
  \/ (\E id \in HeapIds \cup {MissingId}, updates \in TimerUpdates :
        updateSchedule(id, updates))
       /\ UNCHANGED <<notSched, recVars, manualStarts, wallClock>>
  \/ (\E id \in HeapIds \cup {MissingId} : deleteSchedule(id))
       /\ UNCHANGED <<notSched, recVars, manualStarts, wallClock>>
  \/ destroy /\ UNCHANGED <<notSched, recVars, manualStarts, wallClock>>
  \/ (\E timer \in activeTimers : TimerFire(timer))
       /\ UNCHANGED <<notSched, manualStarts, wallClock>>
  \/ SchedTick /\ UNCHANGED <<notSched, recVars, schedVars, manualStarts>>

SpecTimers == InitTimers /\ [][TimersNext]_vars

InitFiles ==
  OccIdle /\ CamInit /\ RecInit /\ SchedInit /\ FsInit
  /\ manualStarts = 0 /\ sessionSteps = 0 /\ wallClock = 0

FilesNext ==
  (\E filename \in Filenames : deleteRecording(filename))
    /\ UNCHANGED <<occVars, camVars, recVars, schedVars, manualStarts, sessionSteps, wallClock>>

SpecFiles == InitFiles /\ [][FilesNext]_vars

\* server.js:42-43  one CameraManager and one RecorderManager, side by side
InitSessions ==
  OccIdle /\ CamInit /\ RecInit /\ SchedInit /\ FsInit
  /\ manualStarts = 0 /\ sessionSteps = 0 /\ wallClock = 0

SessStep ==
  /\ sessionSteps < MaxSessionSteps
  /\ sessionSteps' = sessionSteps + 1

notSessions == <<occVars, schedVars, fsVars, manualStarts, wallClock>>

MutCamSideClearsRecorder(A) ==
  /\ A
  /\ SessStep
  /\ rec' = RecCleared("idle")
  /\ UNCHANGED <<recProcs, recObs, recLast, notSessions>>

\* a step of the CameraManager: its methods and handlers assign fields of this only
CamSide(A) == A /\ SessStep /\ UNCHANGED <<recVars, notSessions>>

\* a step of the RecorderManager
RecSide(A) == A /\ SessStep /\ UNCHANGED <<camVars, notSessions>>

SessNext ==
  \/ CamSide(\E url \in CamUrls : StartStream(url))
  \/ CamSide(StopStream)
  \/ CamSide(\E p \in CamPids : CamProcStart(p))
  \/ CamSide(\E p \in CamPids : CamProcError(p))
  \/ CamSide(\E p \in CamPids : CamProcEnd(p))
  \/ CamSide(HealthTick)
  \/ CamSide(ProbeResponse)
  \/ CamSide(ProbeTimeout)
  \/ CamSide(\E from \in {"sent", "timedOut"} : ProbeError(from))
  \/ RecSide(\E call \in RecCalls : startRecording(call[1], call[2]))
  \/ RecSide(stopRecording)
  \/ RecSide(\E p \in RecPids : RecProcReady(p))
  \/ RecSide(\E p \in RecPids : RecProcError(p))
  \/ RecSide(\E p \in RecPids, exit \in Exits : RecProcEnd(p, exit))

SpecSessions == InitSessions /\ [][SessNext]_vars

(***************************************************************************)
(* Steps.  Every manager step records its operation in camLast or recLast, *)
(* so a step that changes a manager's variables and leaves the operation   *)
(* op recorded is a step of op.                                            *)
(***************************************************************************)
CamStepOf(op) == camLast'.op = op /\ camVars' # camVars
RecStepOf(op) == recLast'.op = op /\ recVars' # recVars

(***************************************************************************)
(* C1                                                                      *)
(***************************************************************************)
\* C1: a startStream call with a url made while status is 'streaming' or 'connecting' is
\* rejected as already active and leaves status, url, audio URL, process handle
\* and health timer (and the processes themselves) as they were.
C1_AsStated ==
  [][(/\ CamStepOf("startStream")
       /\ camLast'.url # NullUrl
       /\ cam.status \in {"streaming", "connecting"})
       => /\ camLast'.result = "AlreadyActive"
          /\ cam' = cam
          /\ camProcs' = camProcs]_vars

(***************************************************************************)
(* C2                                                                      *)
(***************************************************************************)
\* a transcoder spawned by an earlier startRecording that has neither been stopped
\* nor exited, whether or not it has signalled ready
RecInProgress ==
  \E p \in RecPids : recProcs[p].state \in {"spawned", "started"} /\ ~recProcs[p].killed

\* C2: a startRecording call with a url made while a recording is in progress is
\* rejected as already in progress and leaves status, url, filename, start
\* timestamp and process handle (and the processes themselves) as they were.
C2_AsStated ==
  [][(/\ RecStepOf("startRecording")
       /\ recLast'.url # NullUrl
       /\ RecInProgress)
       => /\ recLast'.result = "AlreadyActive"
          /\ rec' = rec
          /\ recProcs' = recProcs]_vars

(***************************************************************************)
(* C3                                                                      *)
(***************************************************************************)
\* C3: the statuses a listener receives after a start call follow
\* idle -> [connecting] -> streaming|recording -> idle|error, and nothing follows
\* the terminal status until the next start call (read generously: a failed start
\* may emit its terminal status without having been streaming).
C3_AsStated == camObs # "bad"

(***************************************************************************)
(* C4                                                                      *)
(***************************************************************************)
\* C4: the terminal side effect of a transcoder process on its owner (status to
\* idle or error, fields cleared, one terminal status event) happens at most once
\* in the life of the process, whether it errors, closes or is stopped.
C4_AsStated == \A p \in RecPids : recProcs[p].terms <= 1

(***************************************************************************)
(* C5                                                                      *)
(***************************************************************************)
\* C5: the process handle is non-null only if status is 'connecting' or
\* 'streaming' and the current source URL is set and not MJPEG-classified.
C5_ProcessOnlyWhileTranscoding ==
  cam.process # NoProc =>
    /\ cam.status \in {"connecting", "streaming"}
    /\ cam.currentUrl # NullUrl
    /\ ~isMjpeg(cam.currentUrl)

\* a transcode-path session that is streaming with its process, after an earlier
\* process of the manager has ended
C5_Witness ==
  /\ cam.process # NoProc
  /\ cam.status = "streaming"
  /\ \E p \in CamPids : camProcs[p].state = "dead"

(***************************************************************************)
(* C6                                                                      *)
(***************************************************************************)
\* C6: the output filename and the start timestamp are both non-null exactly when
\* status is 'recording'.
C6_AsStated ==
  (rec.currentFile # NullFile /\ rec.startTime # NoTime) <=> rec.status = "recording"

(***************************************************************************)
(* C7                                                                      *)
(***************************************************************************)
\* C7: stopStream from any state other than idle with no process leaves status
\* 'idle', no process, no url, no audio URL and no health timer.
C7_AsStated ==
  [][(CamStepOf("stopStream") /\ ~(cam.status = "idle" /\ cam.process = NoProc))
       => cam' = CamCleared("idle")]_vars

(***************************************************************************)
(* C10                                                                     *)
(***************************************************************************)
\* the offsets k in 0..6 whose candidate is strictly after from and whose weekday
\* is in the day set
InDaySet(schedule, t) ==
  /\ Len(schedule.days) > 0
  /\ DayNames[GetDay(t) + 1] \in schedule.days[1]

NoDaySet(schedule) ==
  \/ Len(schedule.days) = 0
  \/ schedule.days[1] = {}

QualifyingStrict(schedule, from) ==
  {k \in 0..6 : /\ Candidate(schedule, from, k) > from
                /\ InDaySet(schedule, Candidate(schedule, from, k))}

Qualifying(schedule, from) ==
  {k \in 0..6 : /\ Candidate(schedule, from, k) > from
                /\ \/ InDaySet(schedule, Candidate(schedule, from, k))
                   \/ NoDaySet(schedule)}

Least(S) == CHOOSE k \in S : \A j \in S : k <= j

FirstOf(schedule, from, S) ==
  IF S = {} THEN NoTime ELSE Candidate(schedule, from, Least(S))

SchedStepOf(ops) ==
  /\ schedLast'.op \in ops
  /\ <<schedHeap, schedules, schedFile, activeTimers, completions, schedLast>>'
       # <<schedHeap, schedules, schedFile, activeTimers, completions, schedLast>>

\* the schedule of the step just taken is in the list and enabled after it
ListedEnabledAfter ==
  \E i \in 1..Len(schedules') :
    /\ schedHeap'[schedules'[i]].id = schedLast'.id
    /\ schedHeap'[schedules'[i]].enabled

\* a start timer for the schedule of the step just taken is pending after it
ArmedAfter ==
  \E t \in activeTimers' : t.id = schedLast'.id /\ ~t.fired /\ t.at > wallClock'

\* C8: whenever the timer of an enabled schedule fires and the start of the
\* recording fails, schedule_error is emitted and afterwards a timer for the next
\* occurrence of the schedule is outstanding, whatever its day set.
C8_AsStated ==
  [][(/\ SchedStepOf({"timerFire", "startFailed"})
      /\ schedLast'.result # "started"
      /\ ListedEnabledAfter)
     => (/\ schedLast'.emitted[Len(schedLast'.emitted)] = "schedule_error"
         /\ ArmedAfter)]_vars

\* C9: when the timer of a schedule fires and the start succeeds, schedule_start
\* is emitted and the recording is started with the camera URL of the schedule;
\* when the duration has passed the recording is stopped, schedule_complete is
\* emitted and a timer for the following occurrence of the schedule is armed.
C9_AsStated ==
  [][/\ (SchedStepOf({"timerFire"}) /\ schedLast'.result = "started")
        => (/\ schedLast'.emitted = <<"schedule_start">>
            /\ rec'.currentUrl = recLast'.url
            /\ \E i \in 1..Len(schedHeap) :
                  schedHeap[i].id = schedLast'.id /\ schedHeap[i].cameraUrl = recLast'.url)
     /\ (SchedStepOf({"completionFire"}) /\ ListedEnabledAfter)
        => (/\ schedLast'.emitted = <<"schedule_complete">>
            /\ recLast'.op = "stopRecording"
            /\ ArmedAfter)]_vars

(***************************************************************************)
(* C11                                                                     *)
(***************************************************************************)
\* the day set is the single weekday of the query instant and the start time has
\* passed at that instant
OnlyTodayAndPassed(schedule, from) ==
  /\ Len(schedule.days) > 0
  /\ schedule.days[1] = {DayNames[GetDay(from) + 1]}
  /\ StartMinute(schedule.startTime) < from % MinsPerDay

\* C11: for a schedule whose day set is the single weekday of the query instant and
\* whose time of day has passed at that instant, _getNextOccurrence returns the
\* occurrence on the same weekday of the following week.
C11_AsStated ==
  (occPc = "done" /\ OnlyTodayAndPassed(occSchedule, occFrom))
    => occResult = Candidate(occSchedule, occFrom, 7)

(***************************************************************************)
(* C12                                                                     *)
(***************************************************************************)
\* an audio URL is supplied in the options or derivable from the source URL
AudioAvailable(cameraUrl, options) ==
  options.audioUrl # NullUrl \/ deriveAudioUrl(cameraUrl) # NullUrl

\* the transcoder the claim expects of an accepted call; the dual-input one
\* resolves with audio: true, the single-input one with audio: false
ExpectedKind(cameraUrl, options) ==
  IF options.includeAudio # "false" /\ AudioAvailable(cameraUrl, options)
  THEN "dual" ELSE "video"

\* C12: an accepted startRecording whose caller did not set includeAudio (options
\* omitted, or options without includeAudio) spawns the dual-input transcoder when
\* an audio URL is derivable or supplied; with includeAudio false it spawns the
\* single-input one.
C12_AsStated ==
  [][\A call \in RecCalls :
       (/\ RecStepOf("startRecording")
        /\ recLast'.result = "pending"
        /\ startRecording(call[1], call[2]))
       => recProcs'[rec'.process].kind = ExpectedKind(call[1], call[2])]_vars

(***************************************************************************)
(* C13                                                                     *)
(***************************************************************************)
\* the resolved path lies in the recordings directory, or is that directory
InsideRecordingsDir(path) ==
  /\ Len(path) >= Len(RecordingsDir)
  /\ SubSeq(path, 1, Len(RecordingsDir)) = RecordingsDir

\* C13: for every filename whose resolved path is not located inside the
\* recordings directory (and is not itself a directory), deleteRecording rejects
\* with the invalid-filename error and deletes nothing.
C13_AsStated ==
  [][(/\ fsVars' # fsVars
      /\ ~InsideRecordingsDir(ResolvePath(delLast'.filename))
      /\ ResolvePath(delLast'.filename) \notin FsDirs)
       => (delLast'.result = "InvalidFilename" /\ fsFiles' = fsFiles)]_vars

(***************************************************************************)
(* C14                                                                     *)
(***************************************************************************)
ProbeFailureStep == CamStepOf("probeTimeout") \/ CamStepOf("probeError")

\* C14: a probe failure reported while status is 'streaming' takes the session to
\* 'idle' with the process killed and url, audio URL and health timer cleared, and
\* emits the status and exactly one 'healthcheck' event; a failure reported in any
\* other status changes no field and emits nothing.
C14_ProbeFailure ==
  [][ProbeFailureStep =>
       IF cam.status = "streaming"
       THEN /\ cam' = CamCleared("idle")
            /\ camProcs' = CamKilled(cam.process)
            /\ camLast'.emitted = <<"idle", "healthcheck">>
       ELSE /\ cam' = cam
            /\ camProcs' = camProcs
            /\ camLast'.emitted = <<>>]_vars

\* a probe of a reset session has timed out and been ignored after its timeout
\* reset a transcode-path session and killed the process
C14_Witness ==
  /\ camLast.op = "probeError"
  /\ camLast.result = "ignored"
  /\ cam.status = "idle"
  /\ \E p \in CamPids : camProcs[p].killed /\ camProcs[p].state = "started"

C16_EmptyUrlRejected ==
  [][/\ (CamStepOf("startStream") /\ camLast'.url = NullUrl) =>
          /\ camLast'.result \in {"InvalidArgument", "AlreadyActive"}
          /\ camLast'.emitted = <<>>
          /\ UNCHANGED <<cam, camProcs, camProbes, camObs>>
     /\ (RecStepOf("startRecording") /\ recLast'.url = NullUrl) =>
          /\ recLast'.result \in {"InvalidArgument", "AlreadyActive"}
          /\ recLast'.emitted = <<>>
          /\ UNCHANGED <<rec, recProcs, recObs>>]_vars

\* both calls have been rejected for the missing URL, the stream one while the
\* session was connecting to an earlier URL
C16_Witness ==
  /\ camLast.op = "startStream"
  /\ camLast.url = NullUrl
  /\ camLast.result = "InvalidArgument"
  /\ cam.status = "connecting"
  /\ cam.process # NoProc
  /\ recLast.op = "startRecording"
  /\ recLast.url = NullUrl
  /\ recLast.result = "InvalidArgument"

(***************************************************************************)
(* C17                                                                     *)
(***************************************************************************)
\* the URL holds 'mjpg' or 'mjpeg' in any case, or starts with http://
MjpegClassified(url) ==
  /\ url # NullUrl
  /\ \/ url[1] = "http://"
     \/ \E i \in 1..Len(url) : url[i] \in {"/mjpg", "/mjpeg", "/MJPEG", "/mjpeg/video.mjpg"}

\* C17: an accepted startStream of a URL classified as MJPEG spawns no transcoder,
\* leaves the process handle null and moves the status to 'streaming', the only
\* status it emits.
C17_MjpegNoTranscoder ==
  [][(/\ CamStepOf("startStream")
      /\ MjpegClassified(camLast'.url)
      /\ camLast'.result \notin {"AlreadyActive", "InvalidArgument"}) =>
        /\ camProcs' = camProcs
        /\ cam'.process = NoProc
        /\ cam'.status = "streaming"
        /\ camLast'.result = "resolved"
        /\ camLast'.emitted = <<"streaming">>]_vars

\* an upper-case MJPEG URL on the rtsp scheme has been accepted while an earlier
\* transcoder was still starting
C17_Witness ==
  /\ camLast.op = "startStream"
  /\ camLast.url = <<"rtsp://", "cam", "/MJPEG">>
  /\ camLast.result = "resolved"
  /\ cam.status = "streaming"
  /\ cam.process = NoProc
  /\ \E p \in CamPids : camProcs[p].state = "spawned"

(***************************************************************************)
(* C18                                                                     *)
(***************************************************************************)
\* C18: in every reachable state of the CameraSession the derived audio URL is non-null
\* exactly when the current source URL is non-null.
C18_AsStated == (cam.audioUrl # NullUrl) <=> (cam.currentUrl # NullUrl)

(***************************************************************************)
(* C19                                                                     *)
(***************************************************************************)
\* C19: stopStream and stopRecording called on an idle session without a process
\* resolve with the nothing-to-do result, change no field and emit no status, so
\* that a second stop finds the state the first one found.
C19_StopOnIdle ==
  [][/\ (cam.status = "idle" /\ cam.process = NoProc /\ StopStream) =>
          /\ camLast'.result = "nothing"
          /\ camLast'.emitted = <<>>
          /\ UNCHANGED <<cam, camProcs, camProbes, camObs>>
     /\ (rec.status = "idle" /\ rec.process = NoProc /\ stopRecording) =>
          /\ recLast'.result = "nothing"
          /\ recLast'.emitted = <<>>
          /\ UNCHANGED <<rec, recProcs, recObs>>]_vars

\* a stream was started and stopped, and then both sessions were stopped while idle
C19_Witness ==
  /\ camLast.op = "stopStream"
  /\ camLast.result = "nothing"
  /\ cam.status = "idle"
  /\ \E p \in CamPids : camProcs[p].killed
  /\ recLast.op = "stopRecording"
  /\ recLast.result = "nothing"
  /\ rec.status = "idle"

(***************************************************************************)
(* C20                                                                     *)
(***************************************************************************)
\* C20: stopRecording called while a recording is in progress returns the filename
\* that the startRecording call of that recording generated, terminates the process
\* and leaves status 'idle' with url, filename, start timestamp and process null.
C20_AsStated ==
  [][(RecInProgress /\ stopRecording) =>
        /\ recLast'.result = "stopped"
        /\ recLast'.file \in {generateFilename(t) : t \in 0..wallClock}
        /\ \A p \in RecPids : recProcs'[p].state \in {"spawned", "started"} => recProcs'[p].killed
        /\ rec' = RecCleared("idle")]_vars

(***************************************************************************)
(* C21                                                                     *)
(***************************************************************************)
\* the start timers that are armed and have not fired
PendingTimers == {t \in activeTimers : ~t.fired}

\* C21: at any time at most one start timer is pending per schedule id, whatever
\* the sequence of add, update, firing with re-arm, delete and destroy.
C21_OneTimerPerId ==
  \A t1, t2 \in PendingTimers : t1.id = t2.id => t1 = t2

\* a timer has fired and has been re-armed for its schedule, and the timer of a
\* schedule with another id is pending beside it
C21_Witness ==
  /\ schedLast.op = "timerFire"
  /\ \E t1, t2 \in PendingTimers :
       /\ t1.id = schedLast.id
       /\ t1.at > wallClock
       /\ t2.id # t1.id

(***************************************************************************)
(* C22                                                                     *)
(***************************************************************************)
\* the schedule objects of list whose id is not id
OthersIn(list, heap, id) == {list[i] : i \in {j \in 1..Len(list) : heap[list[j]].id # id}}

\* C22: a deleteSchedule(id) that succeeds removes the one schedule with that id and
\* leaves no timer pending for it; every other schedule stays in the list as it was,
\* and so does its timer.
C22_AsStated ==
  [][(SchedStepOf({"deleteSchedule"}) /\ schedLast'.result = "deleted") =>
       LET id == schedLast'.id
           others == OthersIn(schedules, schedHeap, id)
       IN /\ Len(schedules') = Len(schedules) - 1
          /\ OthersIn(schedules', schedHeap', id) = {schedules'[i] : i \in 1..Len(schedules')}
          /\ others = {schedules'[i] : i \in 1..Len(schedules')}
          /\ \A o \in others : schedHeap'[o] = schedHeap[o]
          /\ \A t \in PendingTimers' : t.id # id
          /\ {t \in activeTimers' : t.obj \in others} = {t \in activeTimers : t.obj \in others}]_vars

(***************************************************************************)
(* C23                                                                     *)
(***************************************************************************)
\* C23: an updateSchedule(id, partial) that succeeds overwrites the fields of partial
\* in the record and retains the others, leaves the other records and the list as
\* they were, and the only timer that can be pending for id afterwards is the one
\* armed by this call for the record as updated, and only if that is enabled.
C23_UpdateMerges ==
  [][\A id \in {schedLast'.id}, updates \in TimerUpdates :
       (/\ schedLast'.op = "updateSchedule"
        /\ schedLast'.result = "updated"
        /\ updateSchedule(id, updates)) =>
         LET obj == schedules[FindIndex(id)] IN
         /\ DOMAIN schedHeap'[obj] = DOMAIN schedHeap[obj] \cup DOMAIN updates
         /\ \A f \in DOMAIN updates : schedHeap'[obj][f] = updates[f]
         /\ \A f \in DOMAIN schedHeap[obj] \ DOMAIN updates :
              schedHeap'[obj][f] = schedHeap[obj][f]
         /\ \A o \in 1..Len(schedHeap) : o # obj => schedHeap'[o] = schedHeap[o]
         /\ schedules' = schedules
         /\ \A t \in PendingTimers' :
              t.id = id =>
                /\ schedHeap'[obj].enabled
                /\ t.obj = obj
                /\ t.at = getNextOccurrence(schedHeap'[obj], wallClock)]_vars

\* a schedule has been disabled by an update and has no pending timer, while the
\* timer of another schedule is pending
C23_Witness ==
  /\ schedLast.op = "updateSchedule"
  /\ schedLast.result = "updated"
  /\ \E i \in 1..Len(schedules) :
       /\ schedHeap[schedules[i]].id = schedLast.id
       /\ ~schedHeap[schedules[i]].enabled
       /\ schedHeap[schedules[i]].days = <<{"thu"}>>
  /\ \A t \in PendingTimers : t.id # schedLast.id
  /\ PendingTimers # {}

(***************************************************************************)
(* C24                                                                     *)
(***************************************************************************)
\* C24: addSchedule appends the new schedule to the list; when it is enabled a timer
\* for it is pending afterwards, whatever its start time and day set, and when it is
\* not, none is.
C24_AsStated ==
  [][(SchedStepOf({"addSchedule"}) /\ Len(schedHeap') = Len(schedHeap) + 1) =>
       LET obj == Len(schedHeap') IN
       /\ schedules' = Append(schedules, obj)
       /\ schedHeap'[obj].enabled =>
            \E t \in PendingTimers' :
              t.obj = obj /\ t.id = schedHeap'[obj].id /\ t.at > wallClock
       /\ ~schedHeap'[obj].enabled => \A t \in PendingTimers' : t.obj # obj]_vars

(***************************************************************************)
(* C25                                                                     *)
(***************************************************************************)
\* C25: when destroy() returns the scheduler has no timer outstanding, neither a
\* start timer nor the completion timer of a scheduled recording.
C25_AsStated ==
  [][SchedStepOf({"destroy"}) =>
       /\ PendingTimers' = {}
       /\ completions' = {}]_vars

(***************************************************************************)
(* C26                                                                     *)
(***************************************************************************)
\* today's instant of the start time, or tomorrow's when today's is not ahead
TodayOrTomorrow(schedule, from) ==
  LET today == DayOf(from) * MinsPerDay + StartMinute(schedule.startTime)
  IN IF today > from THEN today ELSE today + MinsPerDay

\* C26: with an empty or absent day set _getNextOccurrence returns what it returns
\* with all seven weekdays, which is the next instant of the start time, today if
\* still ahead and tomorrow otherwise, and never none.
C26_EmptyIsEveryDay ==
  (occPc = "done" /\ NoDaySet(occSchedule)) =>
    /\ occResult = getNextOccurrence([occSchedule EXCEPT !.days = <<AllDays>>], occFrom)
    /\ occResult = TodayOrTomorrow(occSchedule, occFrom)
    /\ occResult # NoTime

\* an empty list of days, the start time passed today: tomorrow
C26_Witness ==
  /\ occPc = "done"
  /\ occSchedule.days = <<{}>>
  /\ StartMinute(occSchedule.startTime) < occFrom % MinsPerDay
  /\ occResult = (DayOf(occFrom) + 1) * MinsPerDay + StartMinute(occSchedule.startTime)

(***************************************************************************)
(* C27                                                                     *)
(***************************************************************************)
\* C27: a session whose start failed before the ready signal, and whose status is
\* 'error', leaves 'error' for 'idle' by itself.
C27_AsStated == (cam.status = "error") ~> (cam.status # "error")

(***************************************************************************)
(* C28                                                                     *)
(***************************************************************************)
\* C28: the promise of every startStream call that spawned a process is settled in
\* the end, also when the process is terminated before it signals ready.
C28_AsStated ==
  \A p \in CamPids : (camProcs[p].promise = "pending") ~> (camProcs[p].promise # "pending")

(***************************************************************************)
(* C29                                                                     *)
(***************************************************************************)
\* C29: when a recording process that has signalled ready and was not stopped ends
\* with a failure, the status of its session is 'error' afterwards, and url, file,
\* start timestamp and process handle are cleared.
C29_AsStated ==
  [][\A p \in RecPids :
       (/\ recProcs[p].state = "started"
        /\ ~recProcs[p].killed
        /\ rec.process = p
        /\ recProcs'[p].state = "dead"
        /\ \/ recLast'.op = "procError"
           \/ recLast'.op = "procEnd" /\ recLast'.result = "crashed") =>
         rec' = RecCleared("error")]_vars

(***************************************************************************)
(* C30                                                                     *)
(***************************************************************************)
\* a process that was spawned and has neither exited nor been sent a signal
CamLive(p) == camProcs[p].state \in {"spawned", "started"} /\ ~camProcs[p].killed
RecLive(p) == recProcs[p].state \in {"spawned", "started"} /\ ~recProcs[p].killed

\* C30: for each session kind every spawned process that has neither exited nor been
\* sent a termination signal is the one the session's process handle refers to.
C30_AsStated ==
  /\ \A p \in CamPids : CamLive(p) => cam.process = p
  /\ \A p \in RecPids : RecLive(p) => rec.process = p

(***************************************************************************)
(* C31                                                                     *)
(***************************************************************************)
\* C31: when the timer of a schedule fires while a recording is in progress, the
\* scheduled start fails at once: schedule_error is emitted, the recording and its
\* process are left as they were, and neither a pending start nor a completion timer
\* is kept for the firing.
C31_AsStated ==
  [][(SchedStepOf({"timerFire"}) /\ RecInProgress) =>
       /\ schedLast'.emitted = <<"schedule_start", "schedule_error">>
       /\ rec' = rec
       /\ recProcs' = recProcs
       /\ completions' = completions
       /\ execs' = execs]_vars

(***************************************************************************)
(* C32                                                                     *)
(***************************************************************************)
\* C32: every pending start timer belongs to a schedule that is in the list and
\* enabled.
C32_AsStated ==
  \A t \in PendingTimers :
    /\ \E i \in 1..Len(schedules) : schedules[i] = t.obj
    /\ schedHeap[t.obj].enabled

(***************************************************************************)
(* C33                                                                     *)
(***************************************************************************)
\* C33: the completion timer of a scheduled firing stops no recording but the one
\* that this firing started.
C33_AsStated ==
  [][SchedStepOf({"completionFire"}) =>
       \A p \in RecPids :
         (recProcs'[p].killed /\ ~recProcs[p].killed) =>
           \E c \in completions \ completions' : c.pid = p]_vars

(***************************************************************************)
(* C34                                                                     *)
(***************************************************************************)
\* C34: an event of a transcoder that stopStream or a health-check reset has
\* dropped, and that is not the CameraSession's current process, changes no field
\* of the session and emits no status.
C34_AsStated ==
  [][\A p \in CamPids :
       (/\ CamStepOf("procStart") \/ CamStepOf("procError") \/ CamStepOf("procEnd")
        /\ camProcs'[p].state # camProcs[p].state
        /\ camProcs[p].killed
        /\ cam.process # p) =>
         /\ cam' = cam
         /\ camLast'.emitted = <<>>]_vars

(***************************************************************************)
(* C35                                                                     *)
(***************************************************************************)
\* C35: an event of a recording process that stopRecording has dropped, and that is
\* not the RecordingSession's current process, changes no field of the session and
\* emits no status.
C35_AsStated ==
  [][\A p \in RecPids :
       (/\ RecStepOf("procReady") \/ RecStepOf("procError") \/ RecStepOf("procEnd")
        /\ recProcs'[p].state # recProcs[p].state
        /\ recProcs[p].killed
        /\ rec.process # p) =>
         /\ rec' = rec
         /\ recLast'.emitted = <<>>]_vars

(***************************************************************************)
(* C36                                                                     *)
(***************************************************************************)
\* C36: the timeout or error of a probe that was already in flight when startStream
\* began the current session (the failure is the first step after that startStream,
\* so the probe was issued during an earlier session) changes no field of the new
\* session and emits nothing.
C36_AsStated ==
  [][(/\ camLast.op = "startStream"
      /\ camLast.result = "resolved"
      /\ CamStepOf("probeTimeout") \/ CamStepOf("probeError")) =>
       /\ cam' = cam
       /\ camLast'.emitted = <<>>]_vars

(***************************************************************************)
(* C37                                                                     *)
(***************************************************************************)
\* C37: in every reachable state the health-check timer of the CameraSession is
\* armed exactly when its status is 'streaming'.
C37_HealthIffStreaming == cam.health <=> cam.status = "streaming"

\* a transcoder has signalled ready: the session is streaming on the transcode path
C37_Witness ==
  /\ camLast.op = "procStart"
  /\ cam.process # NoProc
  /\ cam.status = "streaming"
  /\ cam.health

(***************************************************************************)
(* C38                                                                     *)
(***************************************************************************)
\* C38: the schedule that updateSchedule(id, partial) has updated bears the id it was
\* called with, whatever the partial holds, and the ids of the other schedules are
\* unchanged.
C38_AsStated ==
  [][(/\ schedLast'.op = "updateSchedule"
      /\ schedLast'.result = "updated"
      /\ SchedStepOf({"updateSchedule"})) =>
       /\ schedHeap'[schedules[FindIndex(schedLast'.id)]].id = schedLast'.id
       /\ \A o \in 1..Len(schedHeap) : schedHeap'[o].id = schedHeap[o].id]_vars

(***************************************************************************)
(* C39                                                                     *)
(***************************************************************************)
\* C39: updateSchedule and deleteSchedule called with an id that no schedule of the
\* list bears throw the not-found error and leave the heap of schedule objects, the
\* list, the persisted file and the timers as they were.
C39_MissingIdThrows ==
  [][(/\ schedLast'.op \in {"updateSchedule", "deleteSchedule"}
      /\ SchedStepOf({"updateSchedule", "deleteSchedule"})
      /\ \A i \in 1..Len(schedules) : schedHeap[schedules[i]].id # schedLast'.id) =>
       /\ schedLast'.result = "NotFound"
       /\ schedHeap' = schedHeap
       /\ schedules' = schedules
       /\ schedFile' = schedFile
       /\ activeTimers' = activeTimers]_vars

\* deleteSchedule has thrown for the id of a schedule deleted before, while another
\* schedule is listed with its timer pending
C39_Witness ==
  /\ schedLast.op = "deleteSchedule"
  /\ schedLast.result = "NotFound"
  /\ \E o \in 1..Len(schedHeap) :
       /\ schedHeap[o].id = schedLast.id
       /\ \A i \in 1..Len(schedules) : schedules[i] # o
  /\ schedules # <<>>
  /\ PendingTimers # {}

(***************************************************************************)
(* C40                                                                     *)
(***************************************************************************)
\* C40: after every addSchedule, updateSchedule and deleteSchedule call that returns,
\* the persisted file holds the schedules of the list, in order, and the engine
\* constructed from it has a pending timer for each enabled schedule that has a next
\* occurrence.
C40_AsStated ==
  [][(/\ schedLast'.op \in {"addSchedule", "updateSchedule", "deleteSchedule"}
      /\ schedLast'.result \in {"added", "updated", "deleted"}
      /\ SchedStepOf({"addSchedule", "updateSchedule", "deleteSchedule"})) =>
       LET reloaded == Constructed(schedFile', wallClock') IN
       /\ Len(reloaded.schedules) = Len(schedules')
       /\ \A i \in 1..Len(schedules') :
            reloaded.schedHeap[reloaded.schedules[i]] = schedHeap'[schedules'[i]]
       /\ \A i \in 1..Len(reloaded.schedules) :
            LET obj == reloaded.schedules[i]
                nextStart == getNextOccurrence(reloaded.schedHeap[obj], wallClock')
            IN (reloaded.schedHeap[obj].enabled /\ nextStart # NoTime) =>
                 \E t \in reloaded.activeTimers :
                   t.obj = obj /\ ~t.fired /\ t.at = nextStart]_vars

====
